---- MODULE Spec2Model ----
(***************************************************************************)
(* Model of confluent/data/transformers.py: the Transformer job            *)
(* (discovery, pool dispatch, per-file temp-then-rename procedure) and the *)
(* record transform (_clean_bigquery_keys, transform_usage_metrics_record).*)
(* Strings are sequences of one-character strings so that slicing, joining *)
(* and character replacement are computed as the code computes them.       *)
(***************************************************************************)
EXTENDS Integers, Sequences, FiniteSets, TLC

\* ------------------------------------------------------------------ bounds
MaxRecs == 2
MaxRuns == 2
MaxSignals == 1

\* the parallel_processes argument the modelled job is built with (line 17)
parallel_processes == 2

VARIABLES
  source_dir,     \* self.source_dir
  path_contains,  \* self.path_contains (<<>> models None / empty)
  tree,           \* the files under source_dir: records [dir, name]
  data_files,     \* the list built by transform()
  nextTask,       \* index of the next element of data_files the pool hands out
  mainpc,         \* position of the process that called transform()
  wpc,            \* position of each pool worker
  wtask,          \* the input_file a worker is processing (<<>> = none)
  whandle,        \* inode a worker's gzip writer has open (<<>> = none)
  fs,             \* files under sink_dir: path -> inode
  ino,            \* inode -> [of, recs, closed]
  started,        \* inputs that passed the exists() check in this run
  skipped,        \* inputs that returned at the exists() check in this run
  opened,         \* inputs whose temp file was opened in this run
  renamed,        \* inputs whose os.rename succeeded in this run
  cleaned,        \* inputs that entered the except clause in this run
  returned,       \* inputs whose _transform_file call has returned in this run
  ownFail,        \* inputs that had a failure raised by their own step
  sigMain,        \* the calling process received an interruption in this run
  sigWorker,      \* a worker received an interruption in this run
  sigCount,       \* number of interruptions delivered so far
  reported,       \* 'Transformed N data file(s)' was printed in this run
  raised,         \* transform() re-raised KeyboardInterrupt in this run
  run,            \* number of the current call of transform()
  prevDone,       \* the previous call of transform() ran to completion
  prevSink,       \* contents under sink_dir when the current call started
  wrec,           \* number of input lines a worker has processed
  fn              \* operand and result of the pure functions

jobvars == <<source_dir, path_contains, tree, data_files, nextTask, mainpc, wpc,
             wtask, whandle, fs, ino, started, skipped, opened, renamed, cleaned,
             returned, ownFail, sigMain, sigWorker, sigCount, reported, raised,
             run, prevDone, prevSink, wrec>>

vars == <<source_dir, path_contains, tree, data_files, nextTask, mainpc, wpc,
          wtask, whandle, fs, ino, started, skipped, opened, renamed, cleaned,
          returned, ownFail, sigMain, sigWorker, sigCount, reported, raised,
          run, prevDone, prevSink, wrec, fn>>

None == <<>>

\* ------------------------------------------------------------ path helpers
RECURSIVE RStripSlash(_)
RStripSlash(p) ==
  IF p # <<>> /\ p[Len(p)] = "/" THEN RStripSlash(SubSeq(p, 1, Len(p) - 1)) ELSE p

\* p.rfind('/') + 1
SlashEnd(p) ==
  LET S == {i \in 1..Len(p) : p[i] = "/"}
  IN  IF S = {} THEN 0 ELSE CHOOSE i \in S : \A j \in S : j <= i

\* os.path.join(a, b)
PathJoin(a, b) ==
  IF b # <<>> /\ b[1] = "/" THEN b
  ELSE IF a = <<>> \/ a[Len(a)] = "/" THEN a \o b
  ELSE a \o <<"/">> \o b

\* os.path.dirname(p)
Dirname(p) ==
  LET head == SubSeq(p, 1, SlashEnd(p))
  IN  IF head # <<>> /\ (\E i \in 1..Len(head) : head[i] # "/")
      THEN RStripSlash(head) ELSE head

\* os.path.basename(p)
Basename(p) == SubSeq(p, SlashEnd(p) + 1, Len(p))

\* sub in s
Contains(sub, s) ==
  \E i \in 0..(Len(s) - Len(sub)) : SubSeq(s, i + 1, i + Len(sub)) = sub

sink_dir == <<"k">>

\* output_file = os.path.join(self.sink_dir, input_file[len(self.source_dir)+1:])
OutputFile(src, input_file) ==
  PathJoin(sink_dir, SubSeq(input_file, Len(src) + 2, Len(input_file)))

\* temp_file = os.path.join(os.path.dirname(output_file), '.' + os.path.basename(output_file))
TempFile(output_file) ==
  PathJoin(Dirname(output_file), <<".">> \o Basename(output_file))

Out(f) == OutputFile(source_dir, f)
Tmp(f) == TempFile(Out(f))

\* ---------------------------------------------------------------- discovery
\* dirpath as os.walk yields it for the directory of a tree entry
DirPath(src, e) == IF e.dir = <<>> THEN src ELSE PathJoin(src, e.dir)

\* os.path.join(dirpath, name)
InputFile(src, e) == PathJoin(DirPath(src, e), e.name)

\* if not self.path_contains or self.path_contains in dirpath
Matches(src, pc, e) == pc = <<>> \/ Contains(pc, DirPath(src, e))

Discovered(src, pc, t) == {e \in t : Matches(src, pc, e)}

\* the lists os.walk can produce: the top directory first, the order of the
\* names inside one directory is the file system's
WalkOrders(src, pc, t) ==
  LET D == Discovered(src, pc, t)
      n == Cardinality(D)
  IN  {[i \in 1..n |-> InputFile(src, s[i])] :
         s \in {q \in [1..n -> D] :
                  /\ \A i, j \in 1..n : i # j => q[i] # q[j]
                  /\ \A i, j \in 1..n : i < j => ~(q[i].dir # <<>> /\ q[j].dir = <<>>)}}

Range(s) == {s[i] : i \in 1..Len(s)}

Entries ==
  { [dir |-> <<>>, name |-> <<"a">>],
    [dir |-> <<>>, name |-> <<".", "a">>],
    [dir |-> <<"d">>, name |-> <<"a">>] }

\* the source trees: the empty tree, and s/a alone, with its
\* hidden sibling s/.a, or with s/d/a
Trees ==
  {t \in SUBSET Entries : t # Entries /\ (t = {} \/ [dir |-> <<>>, name |-> <<"a">>] \in t)}

\* ---------------------------------------------------------------- file system
Exists(p) == p \in DOMAIN fs

Remove(f, p) == [q \in DOMAIN f \ {p} |-> f[q]]

\* inodes still linked or held open
Live(f, h) == {f[p] : p \in DOMAIN f} \cup ({h[w] : w \in DOMAIN h} \ {None})

Collect(i, f, h) == [x \in DOMAIN i \cap Live(f, h) |-> i[x]]

Content(p) == ino[fs[p]]

SinkContents == [p \in DOMAIN fs |-> ino[fs[p]]]

\* a gzip file holding every transformed record of input f, closed
Complete(c, f) == c.of = f /\ c.recs = MaxRecs /\ c.closed

W == 1..parallel_processes

EmptyFn == [x \in {} |-> None]

NewFile(f) == [of |-> f, recs |-> 0, closed |-> FALSE]

\* ------------------------------------------------------------------- Init
Init ==
  /\ source_dir = <<"s">>
  /\ path_contains \in {<<>>, <<"d">>}
  /\ tree \in Trees
  /\ data_files = <<>>
  /\ nextTask = 1
  /\ mainpc = "start"
  /\ wpc = [w \in W |-> "none"]
  /\ wtask = [w \in W |-> None]
  /\ whandle = [w \in W |-> None]
  /\ wrec = [w \in W |-> 0]
  /\ fs = EmptyFn
  /\ ino = EmptyFn
  /\ started = {} /\ skipped = {} /\ opened = {} /\ renamed = {}
  /\ cleaned = {} /\ returned = {} /\ ownFail = {}
  /\ sigMain = FALSE /\ sigWorker = FALSE /\ sigCount = 0
  /\ reported = FALSE /\ raised = FALSE
  /\ run = 1
  /\ prevDone = FALSE
  /\ prevSink = EmptyFn
  /\ fn = None

config == <<source_dir, path_contains, tree>>
sigs == <<sigMain, sigWorker, sigCount>>
ghosts == <<started, skipped, opened, renamed, cleaned, returned, ownFail>>
runvars == <<run, prevDone, prevSink>>

\* ---------------------------------------------------- Transformer.transform
\* lines 53-56: build data_files
Walk ==
  /\ mainpc = "start"
  /\ data_files' \in WalkOrders(source_dir, path_contains, tree)
  /\ mainpc' = "walked"
  /\ UNCHANGED <<config, nextTask, wpc, wtask, whandle, wrec, fs, ino, ghosts,
                 sigs, reported, raised, runvars, fn>>

\* lines 74-76: nothing to do
NoFiles ==
  /\ mainpc = "walked"
  /\ data_files = <<>>
  /\ mainpc' = "nofiles"
  /\ UNCHANGED <<config, data_files, nextTask, wpc, wtask, whandle, wrec, fs, ino,
                 ghosts, sigs, reported, raised, runvars, fn>>

\* lines 58-62: the pool starts its workers and map() queues every file
CreatePool ==
  /\ mainpc = "walked"
  /\ data_files # <<>>
  /\ mainpc' = "map"
  /\ nextTask' = 1
  /\ wpc' = [w \in W |-> "idle"]
  /\ UNCHANGED <<config, data_files, wtask, whandle, wrec, fs, ino, ghosts, sigs,
                 reported, raised, runvars, fn>>

\* line 62: map() returns once every call has returned
MapReturns ==
  /\ mainpc = "map"
  /\ nextTask > Len(data_files)
  /\ \A w \in W : wpc[w] = "idle"
  /\ mainpc' = "close"
  /\ UNCHANGED <<config, data_files, nextTask, wpc, wtask, whandle, wrec, fs, ino,
                 ghosts, sigs, reported, raised, runvars, fn>>

\* lines 64-65: close() and join(), the workers exit
CloseJoin ==
  /\ mainpc = "close"
  /\ wpc' = [w \in W |-> "exited"]
  /\ mainpc' = "print"
  /\ UNCHANGED <<config, data_files, nextTask, wtask, whandle, wrec, fs, ino,
                 ghosts, sigs, reported, raised, runvars, fn>>

\* line 67
PrintTransformed ==
  /\ mainpc = "print"
  /\ reported' = TRUE
  /\ mainpc' = "done"
  /\ UNCHANGED <<config, data_files, nextTask, wpc, wtask, whandle, wrec, fs, ino,
                 ghosts, sigs, raised, runvars, fn>>

\* line 69: KeyboardInterrupt raised in the caller while it waits on the pool
MainInterrupt ==
  /\ mainpc \in {"map", "close"}
  /\ sigCount < MaxSignals
  /\ sigCount' = sigCount + 1
  /\ sigMain' = TRUE
  /\ mainpc' = "except"
  /\ UNCHANGED <<config, data_files, nextTask, wpc, wtask, whandle, wrec, fs, ino,
                 ghosts, sigWorker, reported, raised, runvars, fn>>

\* lines 70-71: terminate() kills every worker where it stands, join() reaps
Terminate ==
  /\ mainpc = "except"
  /\ wpc' = [w \in W |-> "dead"]
  /\ wtask' = [w \in W |-> None]
  /\ whandle' = [w \in W |-> None]
  /\ wrec' = [w \in W |-> 0]
  /\ ino' = Collect(ino, fs, [w \in W |-> None])
  /\ mainpc' = "raise"
  /\ UNCHANGED <<config, data_files, nextTask, fs, ghosts, sigs, reported, raised,
                 runvars, fn>>

\* line 72
Reraise ==
  /\ mainpc = "raise"
  /\ raised' = TRUE
  /\ mainpc' = "raised"
  /\ UNCHANGED <<config, data_files, nextTask, wpc, wtask, whandle, wrec, fs, ino,
                 ghosts, sigs, reported, runvars, fn>>

\* the caller runs transform() again on the same configuration and source tree
Rerun ==
  /\ mainpc \in {"done", "raised", "nofiles"}
  /\ run < MaxRuns
  /\ run' = run + 1
  /\ prevDone' = (mainpc = "done")
  /\ prevSink' = SinkContents
  /\ mainpc' = "start"
  /\ data_files' = <<>>
  /\ nextTask' = 1
  /\ wpc' = [w \in W |-> "none"]
  /\ started' = {} /\ skipped' = {} /\ opened' = {} /\ renamed' = {}
  /\ cleaned' = {} /\ returned' = {} /\ ownFail' = {}
  /\ sigMain' = FALSE /\ sigWorker' = FALSE
  /\ reported' = FALSE /\ raised' = FALSE
  /\ UNCHANGED <<config, wtask, whandle, wrec, fs, ino, sigCount, fn>>

\* ------------------------------------------------ Transformer._transform_file
main == <<config, data_files, mainpc, reported, raised, runvars, fn>>

Idle(w) ==
  /\ wpc' = [wpc EXCEPT ![w] = "idle"]
  /\ wtask' = [wtask EXCEPT ![w] = None]
  /\ wrec' = [wrec EXCEPT ![w] = 0]

\* line 95: control enters the except clause
Except(w) ==
  /\ wpc' = [wpc EXCEPT ![w] = "except"]
  /\ cleaned' = cleaned \cup {wtask[w]}

\* leaving a 'with gzip.open(...)' block closes the writer (line 107)
CloseHandle(w) ==
  /\ whandle' = [whandle EXCEPT ![w] = None]
  /\ ino' = IF whandle[w] = None THEN ino
            ELSE Collect([ino EXCEPT ![whandle[w]].closed = TRUE], fs,
                         [whandle EXCEPT ![w] = None])

\* line 62: a free worker takes the next file of the list
\* (the workers are interchangeable: the lowest-numbered free one takes it)
TakeTask(w) ==
  /\ wpc[w] = "idle"
  /\ \A v \in W : v < w => wpc[v] # "idle"
  /\ nextTask <= Len(data_files)
  /\ wtask' = [wtask EXCEPT ![w] = data_files[nextTask]]
  /\ nextTask' = nextTask + 1
  /\ wpc' = [wpc EXCEPT ![w] = "exists"]
  /\ UNCHANGED <<main, whandle, wrec, fs, ino, ghosts, sigs>>

\* lines 80-83: output_file exists, skip
Skip(w) ==
  /\ wpc[w] = "exists"
  /\ Exists(Out(wtask[w]))
  /\ skipped' = skipped \cup {wtask[w]}
  /\ returned' = returned \cup {wtask[w]}
  /\ Idle(w)
  /\ UNCHANGED <<main, nextTask, whandle, fs, ino, started, opened, renamed,
                 cleaned, ownFail, sigs>>

\* the exists() check left out
BeginUnchecked(w) ==
  /\ wpc[w] = "exists"
  /\ started' = started \cup {wtask[w]}
  /\ wpc' = [wpc EXCEPT ![w] = "open"]
  /\ UNCHANGED <<main, nextTask, wtask, whandle, wrec, fs, ino, skipped, opened,
                 renamed, cleaned, returned, ownFail, sigs>>

\* lines 81, 85-88: output_file does not exist, enter the try block
Begin(w) ==
  /\ wpc[w] = "exists"
  /\ ~Exists(Out(wtask[w]))
  /\ started' = started \cup {wtask[w]}
  /\ wpc' = [wpc EXCEPT ![w] = "open"]
  /\ UNCHANGED <<main, nextTask, wtask, whandle, wrec, fs, ino, skipped, opened,
                 renamed, cleaned, returned, ownFail, sigs>>

\* line 89 raises OSError
MakedirsFail(w) ==
  /\ wpc[w] = "open"
  /\ Except(w)
  /\ ownFail' = ownFail \cup {wtask[w]}
  /\ UNCHANGED <<main, nextTask, wtask, whandle, wrec, fs, ino, started, skipped,
                 opened, renamed, returned, sigs>>

\* lines 89, 107: os.makedirs succeeds (directories are not part of the state),
\* then gzip.open(temp_file, 'wt') creates the file or truncates the one there
OpenTemp(w) ==
  LET f == wtask[w]
      id == IF Exists(Tmp(f)) THEN fs[Tmp(f)] ELSE <<run, f>>
  IN  /\ wpc[w] = "open"
      /\ fs' = (Tmp(f) :> id) @@ fs
      /\ ino' = (id :> NewFile(f)) @@ ino
      /\ whandle' = [whandle EXCEPT ![w] = id]
      /\ opened' = opened \cup {f}
      /\ wrec' = [wrec EXCEPT ![w] = 0]
      /\ wpc' = [wpc EXCEPT ![w] = "write"]
      /\ UNCHANGED <<main, nextTask, wtask, started, skipped, renamed, cleaned,
                     returned, ownFail, sigs>>

\* line 107 raises OSError, no file is created
OpenFail(w) ==
  /\ wpc[w] = "open"
  /\ Except(w)
  /\ ownFail' = ownFail \cup {wtask[w]}
  /\ UNCHANGED <<main, nextTask, wtask, whandle, wrec, fs, ino, started, skipped,
                 opened, renamed, returned, sigs>>

\* lines 108-112: one line is read, transformed and written
WriteRecord(w) ==
  /\ wpc[w] = "write"
  /\ wrec[w] < MaxRecs
  /\ wrec' = [wrec EXCEPT ![w] = @ + 1]
  /\ ino' = [ino EXCEPT ![whandle[w]].recs = @ + 1]
  /\ UNCHANGED <<main, nextTask, wpc, wtask, whandle, fs, ghosts, sigs>>

\* lines 108-112: reading, json.loads, the record transform or the write raises
RecordFail(w) ==
  /\ wpc[w] = "write"
  /\ wrec[w] < MaxRecs
  /\ CloseHandle(w)
  /\ Except(w)
  /\ ownFail' = ownFail \cup {wtask[w]}
  /\ UNCHANGED <<main, nextTask, wtask, wrec, fs, started, skipped, opened,
                 renamed, returned, sigs>>

\* lines 107-112: the input is exhausted, the with block closes the writer
CloseTemp(w) ==
  /\ wpc[w] = "write"
  /\ wrec[w] = MaxRecs
  /\ CloseHandle(w)
  /\ wpc' = [wpc EXCEPT ![w] = "rename"]
  /\ UNCHANGED <<main, nextTask, wtask, wrec, fs, ghosts, sigs>>

\* line 93: os.rename(temp_file, output_file)
Rename(w) ==
  LET f == wtask[w]
      nfs == (Out(f) :> fs[Tmp(f)]) @@ Remove(fs, Tmp(f))
  IN  /\ wpc[w] = "rename"
      /\ Exists(Tmp(f))
      /\ fs' = nfs
      /\ ino' = Collect(ino, nfs, whandle)
      /\ renamed' = renamed \cup {f}
      /\ wpc' = [wpc EXCEPT ![w] = "renamed"]
      /\ UNCHANGED <<main, nextTask, wtask, whandle, wrec, started, skipped,
                     opened, cleaned, returned, ownFail, sigs>>

\* line 93 raises FileNotFoundError: temp_file is gone
RenameMissing(w) ==
  /\ wpc[w] = "rename"
  /\ ~Exists(Tmp(wtask[w]))
  /\ Except(w)
  /\ UNCHANGED <<main, nextTask, wtask, whandle, wrec, fs, ino, started, skipped,
                 opened, renamed, returned, ownFail, sigs>>

\* line 93 raises another OSError
RenameFail(w) ==
  /\ wpc[w] = "rename"
  /\ Exists(Tmp(wtask[w]))
  /\ Except(w)
  /\ ownFail' = ownFail \cup {wtask[w]}
  /\ UNCHANGED <<main, nextTask, wtask, whandle, wrec, fs, ino, started, skipped,
                 opened, renamed, returned, sigs>>

\* line 93 -> end of the try block: the call returns
Return(w) ==
  /\ wpc[w] = "renamed"
  /\ returned' = returned \cup {wtask[w]}
  /\ Idle(w)
  /\ UNCHANGED <<main, nextTask, whandle, fs, ino, started, skipped, opened,
                 renamed, cleaned, ownFail, sigs>>

\* line 95: KeyboardInterrupt raised in a worker inside the try block
WorkerInterrupt(w) ==
  /\ wpc[w] \in {"open", "write", "rename", "renamed"}
  /\ sigCount < MaxSignals
  /\ sigCount' = sigCount + 1
  /\ sigWorker' = TRUE
  /\ CloseHandle(w)
  /\ Except(w)
  /\ UNCHANGED <<main, nextTask, wtask, wrec, fs, started, skipped, opened,
                 renamed, returned, ownFail, sigMain>>

\* line 100: os.unlink(temp_file)
UnlinkTemp(w) ==
  LET nfs == Remove(fs, Tmp(wtask[w]))
  IN  /\ wpc[w] = "except"
      /\ Exists(Tmp(wtask[w]))
      /\ fs' = nfs
      /\ ino' = Collect(ino, nfs, whandle)
      /\ wpc' = [wpc EXCEPT ![w] = "unlink_out"]
      /\ UNCHANGED <<main, nextTask, wtask, whandle, wrec, ghosts, sigs>>

\* lines 100, 102-103: os.unlink(temp_file) raises, line 101 is not reached
UnlinkTempMissing(w) ==
  /\ wpc[w] = "except"
  /\ ~Exists(Tmp(wtask[w]))
  /\ returned' = returned \cup {wtask[w]}
  /\ Idle(w)
  /\ UNCHANGED <<main, nextTask, whandle, fs, ino, started, skipped, opened,
                 renamed, cleaned, ownFail, sigs>>

\* lines 101-103: os.unlink(output_file), a failure is swallowed
UnlinkOutput(w) ==
  LET nfs == Remove(fs, Out(wtask[w]))
  IN  /\ wpc[w] = "unlink_out"
      /\ fs' = nfs
      /\ ino' = Collect(ino, nfs, whandle)
      /\ returned' = returned \cup {wtask[w]}
      /\ Idle(w)
      /\ UNCHANGED <<main, nextTask, whandle, started, skipped, opened, renamed,
                     cleaned, ownFail, sigs>>

WorkerStep(w) ==
  \/ TakeTask(w) \/ Skip(w) \/ Begin(w) \/ OpenTemp(w)
  \/ WriteRecord(w) \/ CloseTemp(w) \/ Rename(w) \/ RenameMissing(w)
  \/ Return(w) \/ UnlinkTemp(w) \/ UnlinkTempMissing(w) \/ UnlinkOutput(w)

WorkerFail(w) ==
  \/ MakedirsFail(w) \/ OpenFail(w) \/ RecordFail(w) \/ RenameFail(w)

MainStep ==
  \/ Walk \/ NoFiles \/ CreatePool \/ MapReturns \/ CloseJoin \/ PrintTransformed
  \/ Terminate \/ Reraise

Next ==
  \/ MainStep
  \/ MainInterrupt
  \/ Rerun
  \/ \E w \in W : WorkerStep(w)
  \/ \E w \in W : WorkerFail(w)
  \/ \E w \in W : WorkerInterrupt(w)

Spec == Init /\ [][Next]_vars

\* fairness the scheduling gives: the caller and every live worker keep running;
\* failures and interruptions are never forced
FairSpec ==
  /\ Init /\ [][Next]_vars
  /\ WF_vars(MainStep)
  /\ \A w \in W : WF_vars(WorkerStep(w))

Files == Range(data_files)

NoSignal == ~sigMain /\ ~sigWorker

\* ------------------------------------------------------------------ claims
\* C1: a file that exists at a task's output_path holds the complete
\* transformed content of that task's input, in every reachable state.
C1_OutputComplete ==
  \A f \in Files : Exists(Out(f)) => Complete(Content(Out(f)), f)

\* C2: once _transform_file has returned for a file whose procedure failed
\* after the skip check, neither output_path nor temp_path exists.
C2_FailedLeavesNothing ==
  \A f \in Files :
    (f \in cleaned /\ f \in returned) => (~Exists(Out(f)) /\ ~Exists(Tmp(f)))

\* C3: when the previous run completed, the next run skips every discovered
\* file (no start, no temp file opened, no rename) and leaves sink_dir as it was.
C3_SecondRunSkipsAll ==
  (run > 1 /\ prevDone) =>
    (started = {} /\ opened = {} /\ renamed = {} /\ SinkContents = prevSink)

\* a file exists at the output_path of every file the run discovers
AllOutputsIn(sink) ==
  \A e \in Discovered(source_dir, path_contains, tree) :
    OutputFile(source_dir, InputFile(source_dir, e)) \in DOMAIN sink

\* C3 (amended): when the previous run completed and left a file at the
\* output_path of every discovered file, the next run starts no file, opens
\* no temp file, renames nothing and leaves sink_dir as it was.
C3_SecondRunSkipsWhenAllPresent ==
  (run > 1 /\ prevDone /\ AllOutputsIn(prevSink)) =>
    (started = {} /\ opened = {} /\ renamed = {} /\ SinkContents = prevSink)

C3_Witness ==
  /\ run > 1 /\ prevDone /\ AllOutputsIn(prevSink)
  /\ mainpc = "done"
  /\ Cardinality(Files) > 1
  /\ skipped = Files

\* with no cancellation, a returned file that had no failure of its own has
\* been skipped or committed
C4_NoOwnFailureSucceeds ==
  NoSignal =>
    \A f \in Files : (f \in returned /\ f \notin ownFail) =>
                        (f \in skipped \/ (f \in renamed /\ f \notin cleaned))

\* C4: a per-file failure does not abort the job: unless the run is cancelled,
\* every discovered file reaches a terminal state, and a file with no failure
\* of its own ends Committed or Skipped.
C4_FailureIsolation ==
  /\ []C4_NoOwnFailureSucceeds
  /\ (mainpc = "map") ~> (~NoSignal \/ Files \subseteq returned)

\* C5: an interruption delivered to the caller or to a worker is job-level:
\* the run that received it never prints 'Transformed N data file(s)'.
C5_SignalAbortsJob == (sigMain \/ sigWorker) => ~reported

\* C6: each task ends in exactly one of Skipped, Committed, Failed: a task
\* that renamed never enters the cleanup, a failed task has no output.
C6_OneTerminalState ==
  \A f \in Files :
    /\ ~(f \in skipped /\ f \in started)
    /\ ~(f \in renamed /\ f \in cleaned)
    /\ (f \in cleaned /\ f \in returned) => ~Exists(Out(f))
    /\ f \in returned => (f \in skipped \/ f \in renamed \/ f \in cleaned)

\* C7: the temp and output paths of two distinct discovered files are disjoint.
C7_PathsDisjoint ==
  \A f, g \in Files :
    f # g => {Tmp(f), Out(f)} \cap {Tmp(g), Out(g)} = {}

\* ------------------------------------------------- output path derivation
SourceDirs == {<<"s">>, <<"s", "/">>}

PathEntries == Entries \cup {[dir |-> <<>>, name |-> <<"b">>]}

\* the job has not started
JobIdle ==
  /\ data_files = <<>>
  /\ nextTask = 1
  /\ mainpc = "start"
  /\ wpc = [w \in W |-> "none"]
  /\ wtask = [w \in W |-> None]
  /\ whandle = [w \in W |-> None]
  /\ wrec = [w \in W |-> 0]
  /\ fs = EmptyFn
  /\ ino = EmptyFn
  /\ started = {} /\ skipped = {} /\ opened = {} /\ renamed = {}
  /\ cleaned = {} /\ returned = {} /\ ownFail = {}
  /\ sigMain = FALSE /\ sigWorker = FALSE /\ sigCount = 0
  /\ reported = FALSE /\ raised = FALSE
  /\ run = 1
  /\ prevDone = FALSE
  /\ prevSink = EmptyFn

PathInit ==
  /\ source_dir \in SourceDirs
  /\ path_contains \in {<<>>, <<"d">>}
  /\ tree \in {t \in SUBSET PathEntries : t \cap Entries # Entries}
  /\ JobIdle
  /\ fn = <<>>

\* lines 80, 88: the paths _transform_file derives for the next file of the list
DerivePaths ==
  /\ mainpc = "walked"
  /\ Len(fn) < Len(data_files)
  /\ LET f == data_files[Len(fn) + 1]
     IN  fn' = Append(fn, [input |-> f, output |-> Out(f), temp |-> Tmp(f)])
  /\ UNCHANGED jobvars

PathNext == Walk \/ DerivePaths

PathSpec == PathInit /\ [][PathNext]_vars

\* the path of f relative to the directory src
RelativeTo(src, f) ==
  LET d == RStripSlash(src) IN SubSeq(f, Len(d) + 2, Len(f))

\* C8: every derived output path is sink_dir joined with the input's path
\* relative to source_dir, and distinct inputs get distinct output paths.
C8_OutputMirrorsInput ==
  /\ \A i \in 1..Len(fn) :
       fn[i].output = sink_dir \o <<"/">> \o RelativeTo(source_dir, fn[i].input)
  /\ \A i, j \in 1..Len(fn) :
       fn[i].input # fn[j].input => fn[i].output # fn[j].output

\* ------------------------------------------------------- field filter, keys
MaxKeys == 2
MaxDepth == 2

Lower == {"a", "b", "c", "d", "e", "f", "g", "h", "i", "j", "k", "l", "m",
          "n", "o", "p", "q", "r", "s", "t", "u", "v", "w", "x", "y", "z"}
Upper == {"A", "B", "C", "D", "E", "F", "G", "H", "I", "J", "K", "L", "M",
          "N", "O", "P", "Q", "R", "S", "T", "U", "V", "W", "X", "Y", "Z"}
Digits == {"0", "1", "2", "3", "4", "5", "6", "7", "8", "9"}

\* the characters INVALID_KEY_CHARS_RE does not match
ValidKeyChars == Lower \cup Upper \cup Digits \cup {"_"}

\* INVALID_KEY_CHARS_RE.sub('_', key)
Sanitize(key) ==
  [i \in 1..Len(key) |-> IF key[i] \in ValidKeyChars THEN key[i] ELSE "_"]

\* f.lstrip('-')
RECURSIVE LStripDash(_)
LStripDash(f) == IF f # <<>> /\ f[1] = "-" THEN LStripDash(Tail(f)) ELSE f

\* f.startswith('-')
StartsWithDash(f) == f # <<>> /\ f[1] = "-"

\* lines 36-42 (None and the empty set are both {}: the code only tests truth)
SplitFields(field_spec) ==
  IF field_spec # {}
  THEN LET fields_with_exclude_prefix == {f \in field_spec : StartsWithDash(f)}
       IN  [select  |-> field_spec \ fields_with_exclude_prefix,
            exclude |-> {LStripDash(f) : f \in fields_with_exclude_prefix}]
  ELSE [select |-> {}, exclude |-> {}]

\* a dict is a sequence of items [k, v] in insertion order; a value is
\* [t |-> "leaf"] or [t |-> "dict", v |-> dict]
Leaf == [t |-> "leaf"]
DictValue(d) == [t |-> "dict", v |-> d]

HasKey(d, k) == \E i \in 1..Len(d) : d[i].k = k
Get(d, k) == d[CHOOSE i \in 1..Len(d) : d[i].k = k].v

\* clean_data[key] = value
DictSet(d, k, v) ==
  IF HasKey(d, k)
  THEN [i \in 1..Len(d) |-> IF d[i].k = k THEN [k |-> k, v |-> v] ELSE d[i]]
  ELSE Append(d, [k |-> k, v |-> v])

\* lines 125-141; parent <<>> models both None and '' (line 128 tests truth)
RECURSIVE CleanLoop(_, _, _, _, _, _)
CleanLoop(record, i, clean_data, select_fields, exclude_fields, parent_key) ==
  IF i > Len(record) THEN clean_data
  ELSE
    LET key == record[i].k
        value == record[i].v
        full_key == IF parent_key # <<>> THEN parent_key \o <<".">> \o key ELSE key
        clean_key == Sanitize(key)
    IN  IF \/ (select_fields # {} /\ full_key \notin select_fields)
           \/ (exclude_fields # {} /\ full_key \in exclude_fields)
        THEN CleanLoop(record, i + 1, clean_data, select_fields, exclude_fields,
                       parent_key)
        ELSE
          LET clean_value ==
                IF value.t = "dict"
                THEN DictValue(CleanLoop(value.v, 1, <<>>, select_fields,
                                         exclude_fields, full_key))
                ELSE value
          IN  CleanLoop(record, i + 1, DictSet(clean_data, clean_key, clean_value),
                        select_fields, exclude_fields, parent_key)

CleanBigqueryKeys(record, select_fields, exclude_fields) ==
  CleanLoop(record, 1, <<>>, select_fields, exclude_fields, <<>>)

\* ------------------------------------------------------------ input records
KeyOrder == << <<"m">>, <<"t">>, <<"@", "v">>, <<>> >>
RecordKeys == Range(KeyOrder)
HolderKeys == {<<"m">>, <<>>}

\* the dict with the keys S, in KeyOrder, all leaves except the key h (if any)
MakeDict(S, h, sub) ==
  LET all == [i \in 1..Len(KeyOrder) |->
                [k |-> KeyOrder[i],
                 v |-> IF KeyOrder[i] = h THEN DictValue(sub) ELSE Leaf]]
      Keep(it) == it.k \in S
  IN  SelectSeq(all, Keep)

KeySets == {S \in SUBSET RecordKeys : Cardinality(S) <= MaxKeys}

RECURSIVE RecordsOfDepth(_)
RecordsOfDepth(d) ==
  {MakeDict(S, <<"-">>, <<>>) : S \in KeySets}
  \cup (IF d <= 1 THEN {}
        ELSE UNION {{MakeDict(S, h, sub) : sub \in RecordsOfDepth(d - 1)} :
                      S \in KeySets \ {{}}, h \in HolderKeys})

Records == RecordsOfDepth(MaxDepth)

SpecEntries ==
  { <<"m">>, <<"m", ".", "t">>, <<"-", "@", "v">>, <<"-", "t">> }

RecordInit ==
  /\ source_dir = <<"s">>
  /\ path_contains = <<>>
  /\ tree = {}
  /\ JobIdle
  /\ \E spec \in SUBSET SpecEntries, r \in Records :
       fn = [stage |-> "new", field_spec |-> spec, record |-> r,
             select_fields |-> {}, exclude_fields |-> {}, out |-> <<>>]

\* Transformer.__init__, lines 36-42
Construct ==
  /\ fn.stage = "new"
  /\ fn' = [fn EXCEPT !.stage = "built",
                      !.select_fields = SplitFields(fn.field_spec).select,
                      !.exclude_fields = SplitFields(fn.field_spec).exclude]
  /\ UNCHANGED jobvars

\* _clean_bigquery_keys(record, select_fields, exclude_fields)
Clean ==
  /\ fn.stage = "built"
  /\ fn' = [fn EXCEPT !.stage = "cleaned",
                      !.out = CleanBigqueryKeys(fn.record, fn.select_fields,
                                                fn.exclude_fields)]
  /\ UNCHANGED jobvars

RecordNext == Construct \/ Clean

RecordSpec == RecordInit /\ [][RecordNext]_vars

\* the names of a path joined with '.'
RECURSIVE DotJoin(_)
DotJoin(path) ==
  IF Len(path) = 1 THEN path[1]
  ELSE DotJoin(SubSeq(path, 1, Len(path) - 1)) \o <<".">> \o path[Len(path)]

\* the paths (sequences of original keys) of the leaf fields of a record
RECURSIVE LeafPaths(_)
LeafPaths(record) ==
  UNION {IF record[i].v.t = "dict"
         THEN {<<record[i].k>> \o q : q \in LeafPaths(record[i].v.v)}
         ELSE {<<record[i].k>>} : i \in 1..Len(record)}

\* the output holds a leaf under the sanitized names of the path
RECURSIVE Survives(_, _)
Survives(out, path) ==
  /\ HasKey(out, Sanitize(path[1]))
  /\ LET v == Get(out, Sanitize(path[1]))
     IN  IF Len(path) = 1 THEN v.t = "leaf"
         ELSE v.t = "dict" /\ Survives(v.v, Tail(path))

\* C9: with a non-empty select_fields, a field of the record survives in the
\* output exactly when its full dotted path is in select_fields (so the spec
\* {"-@v", "m.t"} keeps the nested field m.t and nothing else).
C9_SelectByDottedPath ==
  (fn.stage = "cleaned" /\ fn.select_fields # {}) =>
    \A path \in LeafPaths(fn.record) :
      Survives(fn.out, path) <=> DotJoin(path) \in fn.select_fields

\* the decision rule of the field filter for the key at the end of path
Dropped(path, select_fields, exclude_fields) ==
  \/ (select_fields # {} /\ DotJoin(path) \notin select_fields)
  \/ (exclude_fields # {} /\ DotJoin(path) \in exclude_fields)

\* out is what the rule gives for record, whose ancestors are anc
RECURSIVE RuleHolds(_, _, _, _, _)
RuleHolds(record, out, anc, sel, exc) ==
  /\ \A i \in 1..Len(record) :
       LET path == anc \o <<record[i].k>>
           name == Sanitize(record[i].k)
       IN  ~Dropped(path, sel, exc) =>
             /\ HasKey(out, name)
             /\ IF record[i].v.t = "dict"
                THEN /\ Get(out, name).t = "dict"
                     /\ RuleHolds(record[i].v.v, Get(out, name).v, path, sel, exc)
                ELSE Get(out, name) = record[i].v
  /\ \A j \in 1..Len(out) :
       \E i \in 1..Len(record) :
         /\ ~Dropped(anc \o <<record[i].k>>, sel, exc)
         /\ Sanitize(record[i].k) = out[j].k

\* C10: at every depth a key is dropped if select_fields is non-empty and its
\* dot-joined original path is not a member, else dropped if exclude_fields is
\* non-empty and the path is a member, else kept under its sanitized name.
C10_DecisionRule ==
  fn.stage = "cleaned" =>
    RuleHolds(fn.record, fn.out, <<>>, fn.select_fields, fn.exclude_fields)

\* ------------------------------------------------ construction of the field sets
\* entries a caller can pass as select_fields: plain paths, paths with the
\* "-" prefix, a path with two dashes, and the bare prefix
FieldEntries ==
  { <<"a">>, <<"-", "a">>, <<"-", "-", "a">>, <<"b">>, <<"-", "b">>, <<"-">>,
    <<"m", ".", "t">> }

FieldInit ==
  /\ source_dir = <<"s">>
  /\ path_contains = <<>>
  /\ tree = {}
  /\ JobIdle
  /\ \E spec \in SUBSET FieldEntries :
       fn = [stage |-> "new", field_spec |-> spec, record |-> <<>>,
             select_fields |-> {}, exclude_fields |-> {}, out |-> <<>>]

FieldNext == Construct

FieldSpec == FieldInit /\ [][FieldNext]_vars

\* C11: after construction no path is a member of both select_fields and
\* exclude_fields, whatever field_spec was passed.
C11_SelectExcludeDisjoint ==
  fn.stage = "built" => fn.select_fields \cap fn.exclude_fields = {}

\* C19: construction removes exactly one leading '-' from each entry that
\* starts with '-' to form exclude_fields, and select_fields holds exactly the
\* entries that do not start with '-'.
C19_StripsOneMarker ==
  fn.stage = "built" =>
    /\ fn.exclude_fields = {Tail(f) : f \in {g \in fn.field_spec : StartsWithDash(g)}}
    /\ fn.select_fields = {f \in fn.field_spec : ~StartsWithDash(f)}

\* --------------------------------------------- transform_usage_metrics_record
MaxDelta == 91

\* JSON values besides dicts and opaque leaves
IntValue(n) == [t |-> "int", n |-> n]
StrValue(s) == [t |-> "str", s |-> s]
ListValue(items) == [t |-> "list", v |-> items]

\* the keys the transform names
at_timestamp == <<"@", "t", "i", "m", "e", "s", "t", "a", "m", "p">>
timestamp == <<"t", "i", "m", "e", "s", "t", "a", "m", "p">>
metric == <<"m", "e", "t", "r", "i", "c">>
deltaSeconds == <<"_", "d", "e", "l", "t", "a", "S", "e", "c", "o", "n", "d", "s">>
datetime_pt == <<"d", "a", "t", "e", "t", "i", "m", "e", "_", "p", "t">>
date_pt == <<"d", "a", "t", "e", "_", "p", "t">>

\* record.pop(key, None)
DictPop(d, key) ==
  LET Other(it) == it.k # key IN SelectSeq(d, Other)

DigitChars == <<"0", "1", "2", "3", "4", "5", "6", "7", "8", "9">>

\* str(n) for an integer n
RECURSIVE NatToStr(_)
NatToStr(n) ==
  IF n < 10 THEN <<DigitChars[n + 1]>>
  ELSE NatToStr(n \div 10) \o <<DigitChars[(n % 10) + 1]>>

IntToStr(n) == IF n < 0 THEN <<"-">> \o NatToStr(-n) ELSE NatToStr(n)

\* the strings int() accepts among those the records hold: an optional sign
\* followed by one or more digits
IsDecimal(s) ==
  LET body == IF s # <<>> /\ s[1] \in {"-", "+"} THEN Tail(s) ELSE s
  IN  body # <<>> /\ \A i \in 1..Len(body) : body[i] \in Digits

RECURSIVE ParseDigits(_)
ParseDigits(s) ==
  IF s = <<>> THEN 0
  ELSE 10 * ParseDigits(SubSeq(s, 1, Len(s) - 1))
       + ((CHOOSE i \in 1..10 : DigitChars[i] = s[Len(s)]) - 1)

\* int(s) for a string that IsDecimal
ParseInt(s) ==
  IF s[1] = "-" THEN -ParseDigits(Tail(s))
  ELSE IF s[1] = "+" THEN ParseDigits(Tail(s))
  ELSE ParseDigits(s)

\* int(q) of the quotient a / b, b > 0: truncation toward zero
Trunc(a, b) == IF a >= 0 THEN a \div b ELSE -((-a) \div b)

\* line 199
delta_unit == 60

\* int(x / delta_unit + 0.5) * delta_unit for an integer x
\* (x / delta_unit + 0.5 is the rational (2x + delta_unit) / (2 delta_unit))
RoundToUnit(x) == Trunc(2 * x + delta_unit, 2 * delta_unit) * delta_unit

Max(a, b) == IF a >= b THEN a ELSE b

\* lines 201-202 without the max(..., delta_unit)
DeltaSecondsUnclamped(d) == RoundToUnit(d)

\* lines 201-202, for the integer int(record['metric']['_deltaSeconds'])
DeltaSeconds(d) == Max(RoundToUnit(d), delta_unit)

\* int(value) on line 201 succeeds
IntConvertible(value) ==
  \/ value.t = "int"
  \/ value.t = "str" /\ IsDecimal(value.s)

IntOf(value) == IF value.t = "int" THEN value.n ELSE ParseInt(value.s)

\* the offset of pytz.timezone('US/Pacific') from UTC at ts, in seconds: the
\* timestamps of the records below lie in the winter of 1969/70 (standard time)
UtcOffset(ts) == (0 - 8) * 3600

\* the proleptic Gregorian date [y, m, d] of the day number z (0 = 1970-01-01)
CivilFromDays(z) ==
  LET s == z + 719468
      era == s \div 146097
      doe == s - era * 146097
      yoe == (doe - doe \div 1460 + doe \div 36524 - doe \div 146096) \div 365
      doy == doe - (365 * yoe + yoe \div 4 - yoe \div 100)
      mp == (5 * doy + 2) \div 153
      m == IF mp < 10 THEN mp + 3 ELSE mp - 9
  IN  [y |-> yoe + era * 400 + (IF m <= 2 THEN 1 ELSE 0),
       m |-> m,
       d |-> doy - (153 * mp + 2) \div 5 + 1]

Pad2(n) == IF n < 10 THEN <<"0">> \o NatToStr(n) ELSE NatToStr(n)

\* datetime.fromtimestamp(ts, tz).strftime('%Y-%m-%d')
FormatDate(ts) ==
  LET c == CivilFromDays((ts + UtcOffset(ts)) \div 86400)
  IN  NatToStr(c.y) \o <<"-">> \o Pad2(c.m) \o <<"-">> \o Pad2(c.d)

\* datetime.fromtimestamp(ts, tz).strftime('%Y-%m-%d %H:%M:%S')
FormatDateTime(ts) ==
  LET sod == (ts + UtcOffset(ts)) % 86400
  IN  FormatDate(ts) \o <<" ">> \o Pad2(sod \div 3600) \o <<":">>
        \o Pad2((sod % 3600) \div 60) \o <<":">> \o Pad2(sod % 60)

\* the outcome of one call: the state of the dict passed in when the call
\* ends, the value returned, and the exception raised ("none" if it returned)
Outcome(record, out, error) == [record |-> record, out |-> out, error |-> error]

\* lines 195-209
TransformUsageMetricsRecord(record, select_fields, exclude_fields) ==
  LET r1 == DictPop(record, at_timestamp)
  IN  IF ~HasKey(r1, timestamp) THEN Outcome(r1, <<>>, "KeyError")
      ELSE
  LET r2 == DictSet(r1, timestamp, IntValue(RoundToUnit(Get(r1, timestamp).n)))
      m == Get(r2, metric).v
  IN  IF ~HasKey(m, deltaSeconds) THEN Outcome(r2, <<>>, "KeyError")
      ELSE IF ~IntConvertible(Get(m, deltaSeconds)) THEN Outcome(r2, <<>>, "ValueError")
      ELSE
  LET d == DeltaSeconds(IntOf(Get(m, deltaSeconds)))
      r3 == DictSet(r2, metric, DictValue(DictSet(m, deltaSeconds, IntValue(d))))
      ts == Get(r3, timestamp).n
      r4 == DictSet(r3, datetime_pt, StrValue(FormatDateTime(ts)))
      r5 == DictSet(r4, date_pt, StrValue(FormatDate(ts)))
  IN  Outcome(r5, CleanBigqueryKeys(r5, select_fields, exclude_fields), "none")

\* ------------------------------------------------------ usage metric records
Absent == [t |-> "absent"]

Timestamps == {-91, -90, -61, -60, -31, -30, -29, 0, 29, 30, 89, 90, 1234567}

Deltas == (0 - MaxDelta)..MaxDelta

\* _deltaSeconds as a number, as the decimal string of a number, as a string
\* that is no number, or missing
DeltaValues ==
  {IntValue(d) : d \in Deltas} \cup {StrValue(IntToStr(d)) : d \in Deltas}
    \cup {StrValue(<<"x">>), Absent}

pod_name == <<"p", "o", "d", "-", "n", "a", "m", "e">>

Item(k, v) == [k |-> k, v |-> v]

\* the items of key k: none when the value is Absent
Opt(k, v) == IF v = Absent THEN <<>> ELSE <<Item(k, v)>>

\* a record as json.loads returns it; with extra, metric holds a key with an
\* invalid character and the record holds a list of dicts with such a key
UsageRecord(at, ts, dv, extra) ==
  Opt(at_timestamp, at)
    \o Opt(timestamp, ts)
    \o <<Item(metric, DictValue(Opt(deltaSeconds, dv)
                                  \o Opt(pod_name, IF extra THEN Leaf ELSE Absent)))>>
    \o Opt(<<"l">>, IF extra
                    THEN ListValue(<<DictValue(<<Item(pod_name, Leaf)>>)>>)
                    ELSE Absent)

UsageRecords ==
  {UsageRecord(at, ts, dv, extra) :
     at \in {StrValue(<<"x">>), Absent},
     ts \in {IntValue(t) : t \in Timestamps} \cup {Absent},
     dv \in DeltaValues,
     extra \in BOOLEAN}

\* the full dotted path of every key of a record, top-level and nested
RECURSIVE AllPaths(_)
AllPaths(record) ==
  UNION {{record[i].k}
           \cup (IF record[i].v.t = "dict"
                 THEN {record[i].k \o <<".">> \o q : q \in AllPaths(record[i].v.v)}
                 ELSE {}) : i \in 1..Len(record)}

\* the field specs a record is transformed with: none, one exclusion, one
\* selection, and the selection of every path of the record
UsageFieldSpecs(record) ==
  { {}, {<<"-">> \o timestamp}, {metric}, AllPaths(record) }

TransformInit ==
  /\ source_dir = <<"s">>
  /\ path_contains = <<>>
  /\ tree = {}
  /\ JobIdle
  /\ \E r \in UsageRecords :
       \E spec \in UsageFieldSpecs(r) :
         fn = [stage |-> "new", field_spec |-> spec, record |-> r, input |-> r,
               select_fields |-> {}, exclude_fields |-> {}, out |-> <<>>,
               error |-> "none"]

\* lines 109-111: record is the dict the caller holds; input remembers what it
\* held before the call
TransformRecord ==
  /\ fn.stage = "built"
  /\ LET o == TransformUsageMetricsRecord(fn.record, fn.select_fields,
                                          fn.exclude_fields)
     IN  fn' = [fn EXCEPT !.stage = "transformed", !.record = o.record,
                          !.out = o.out, !.error = o.error]
  /\ UNCHANGED jobvars

TransformNext == Construct \/ TransformRecord

TransformSpec == TransformInit /\ [][TransformNext]_vars

\* round-half-up to the unit: floor(x / delta_unit + 0.5) * delta_unit
Bucket(x) == ((2 * x + delta_unit) \div (2 * delta_unit)) * delta_unit

Returned == fn.stage = "transformed" /\ fn.error = "none"

\* C12: the timestamp of the transformed record is the input's timestamp
\* rounded half-up to the 60-second bucket, negative timestamps included.
C12_TimestampRounded ==
  (Returned /\ HasKey(fn.out, timestamp)) =>
    Get(fn.out, timestamp) = IntValue(Bucket(Get(fn.input, timestamp).n))

\* the value at metric._deltaSeconds of a record
DeltaOf(record) == Get(Get(record, metric).v, deltaSeconds)

HasDelta(record) ==
  /\ HasKey(record, metric)
  /\ HasKey(Get(record, metric).v, deltaSeconds)

\* C13: the transformed metric._deltaSeconds is max(bucket(d), 60) for the
\* integer d given as a number or as a decimal string: the value the transform
\* assigns, and the value in the returned record whenever the filter keeps it
\* (it does when no field spec is given); a multiple of 60 and at least 60.
C13_DeltaRoundedAndClamped ==
  Returned =>
    LET d == IntOf(DeltaOf(fn.input))
        want == IntValue(Max(Bucket(d), 60))
    IN  /\ DeltaOf(fn.record) = want
        /\ HasDelta(fn.out) => DeltaOf(fn.out) = want
        /\ fn.field_spec = {} => HasDelta(fn.out)
        /\ want.n % 60 = 0 /\ want.n >= 60

C13_Witness ==
  /\ Returned
  /\ fn.field_spec = {}
  /\ DeltaOf(fn.input) = StrValue(<<"-", "3", "1">>)
  /\ DeltaOf(fn.out) = IntValue(60)

\* C14: when the call has returned or failed, the dict passed in holds the
\* keys and values it held before the call, at every depth.
C14_InputNotMutated ==
  fn.stage = "transformed" => fn.record = fn.input

\* every key of every dict in a value, dicts that are elements of lists
\* included, consists of characters of [A-Za-z0-9_]
RECURSIVE KeysValid(_)
KeysValid(value) ==
  IF value.t = "dict"
  THEN \A i \in 1..Len(value.v) :
         /\ \A j \in 1..Len(value.v[i].k) : value.v[i].k[j] \in ValidKeyChars
         /\ KeysValid(value.v[i].v)
  ELSE IF value.t = "list"
  THEN \A i \in 1..Len(value.v) : KeysValid(value.v[i])
  ELSE TRUE

\* C15: every key of the returned record, at every nesting depth and inside
\* sequence values, consists only of characters of [A-Za-z0-9_].
C15_KeysSanitizedEverywhere ==
  Returned => KeysValid(DictValue(fn.out))

\* C16: transforming with select_fields equal to the set of all full dotted
\* paths of the record returns what transforming with no field spec returns.
C16_FullSelectionRoundTrip ==
  (Returned /\ fn.field_spec # {} /\ fn.field_spec = AllPaths(fn.input)) =>
    fn.out = TransformUsageMetricsRecord(fn.input, {}, {}).out

\* ------------------------------------------------- cancellation, report, sink
\* the files whose _transform_file call was under way when the pool stopped
InFlight == started \ returned

\* C17: once transform() has re-raised the interruption, no temp file and no
\* partial output of a file that was in flight remains under sink_dir.
C17_CancelledLeavesNoPartial ==
  raised =>
    \A f \in InFlight :
      /\ ~Exists(Tmp(f))
      /\ Exists(Out(f)) => Complete(Content(Out(f)), f)

\* line 67: the number printed after 'Transformed'
ReportedCount == Len(data_files)

\* the files that ended Committed in this run
Committed == {f \in Files : f \in renamed /\ f \notin cleaned}

\* C18: the number the job reports as transformed is the number of files that
\* ended Committed in this run; skipped and failed files are not counted.
C18_ReportsCommittedCount ==
  reported => ReportedCount = Cardinality(Committed)

\* the output paths under sink_dir that hold the complete output of their input
CompleteOutputs ==
  {p \in DOMAIN fs :
     \E e \in Discovered(source_dir, path_contains, tree) :
       /\ p = Out(InputFile(source_dir, e))
       /\ Complete(ino[fs[p]], InputFile(source_dir, e))}

\* C20: a complete file at an output path is never truncated, rewritten or
\* removed by a later step of the job.
C20_SinkMonotone ==
  [][\A p \in CompleteOutputs : p \in DOMAIN fs' /\ ino'[fs'[p]] = ino[fs[p]]]_vars

====
